---- MODULE Spec2Model ----
(***************************************************************************)
(* A model of the SENSE device automation and rotation engine.             *)
(*                                                                         *)
(*   control.py   DeviceController: toggle_device, auto_control_empty_     *)
(*                rooms, ac_rotation_system, emergency_shutdown over the   *)
(*                `rooms`, `devices` and `activity_logs` tables            *)
(*   db.py        update_device_status over the `device_status` table,     *)
(*                the alert store                                          *)
(*   app.py       the fallback toggle_device and the bulk operations       *)
(*                                                                         *)
(* Time is counted in hours.  A timestamp is a natural number.             *)
(***************************************************************************)
EXTENDS Integers, Sequences, FiniteSets, TLC

VARIABLES
    now,            \* the wall clock, datetime.now() / CURRENT_TIMESTAMP
    rooms,          \* table rooms: id -> row
    devices,        \* table devices: id -> row (committed contents)
    activity_logs,  \* table activity_logs, in insertion order
    system_alerts,  \* table system_alerts, in insertion order
    rot,            \* a running ac_rotation_system pass: its position, its
                    \* local variables and its connection's open transaction
    device_status,  \* db.py's table device_status: device_id -> row
    device_logs,    \* db.py's table device_logs, in insertion order
    room_occupancy, \* db.py's table room_occupancy: room_id -> row
    sched,          \* SenseScheduler: its running flag, the jobs of the
                    \* `schedule` module and the scheduler threads
    last            \* the last command: its arguments, its return value and
                    \* the tables as they were when it was called

vars == <<now, rooms, devices, activity_logs, system_alerts, rot,
          device_status, device_logs, room_occupancy, sched, last>>

\* db.py's tables, which control.py never touches
dbTables == <<device_status, device_logs, room_occupancy>>

(***************************************************************************)
(* Bounds of the model.                                                    *)
(***************************************************************************)
MaxTime == 9
MaxLog == 1
MaxCalls == 2
MaxThreads == 2
MaxAlerts == 2

(***************************************************************************)
(* Program constants.                                                      *)
(***************************************************************************)
\* timedelta(hours=8) in ac_rotation_system
EightHours == 8
\* the user_id the automation writes into activity_logs
SystemUser == 1
\* timedelta(minutes=15) in auto_control_empty_rooms
EmptyThresholdMinutes == 15

\* Python's None for an optional argument
None == 0 - 1

(***************************************************************************)
(* The provisioned facility.  Rooms 1 and 2 are in building 1, room 3 is   *)
(* in building 2 on the ground floor (floor 0).  Room 1 is VIP and holds   *)
(* three ACs and a fan; room 2 is the critical room; room 3 is an ordinary *)
(* room with a projector and a computer.                                   *)
(***************************************************************************)
RoomIds == {1, 2, 3}
DeviceIds == 1..7
NoSuchDevice == Cardinality(DeviceIds) + 1
Users == {2}
DeviceTypes == {"fan", "ac", "light", "projector", "computer"}

DeviceRoom(d) == IF d <= 4 THEN 1 ELSE IF d = 5 THEN 2 ELSE 3

DeviceType(d) ==
    CASE d \in {1, 2, 3} -> "ac"
      [] d = 4 -> "fan"
      [] d = 5 -> "light"
      [] d = 6 -> "projector"
      [] OTHER -> "computer"

RoomBuilding(r) == IF r = 3 THEN 2 ELSE 1
RoomFloor(r) == IF r = 1 THEN 1 ELSE IF r = 2 THEN 2 ELSE 0

Min(S) == CHOOSE x \in S : \A y \in S : x <= y

\* Python truthiness of an optional integer: `if building_id:`
Truthy(x) == x /= None /\ x /= 0

(***************************************************************************)
(* activity_logs rows: (user_id, action, details).  `details` holds the    *)
(* identifiers the formatted text names.                                   *)
(***************************************************************************)
LogRow(user_id, action, details) ==
    [user_id |-> user_id, action |-> action, details |-> details]

(***************************************************************************)
(* DeviceController.get_room_by_device: the room row joined to the device, *)
(* or no row.                                                              *)
(***************************************************************************)
NoRow == [found |-> FALSE]

get_room_by_device(devs, device_id) ==
    IF device_id \in DOMAIN devs /\ devs[device_id].room_id \in DOMAIN rooms
    THEN [found |-> TRUE, room |-> rooms[devs[device_id].room_id],
          device_type |-> devs[device_id].device_type]
    ELSE NoRow

(***************************************************************************)
(* DeviceController.log_vip_access                                         *)
(***************************************************************************)
log_vip_access(logs, user_id, device_id) ==
    Append(logs, LogRow(user_id, "VIP Access", <<device_id>>))

(***************************************************************************)
(* SenseDB.toggle_device(device_id, user_id): flips the device, stamps the *)
(* switch time, writes the audit entry of the transition and returns the   *)
(* new state.                                                              *)
(***************************************************************************)
db_toggle_device(devs, logs, device_id, user_id, t) ==
    LET new_state == ~devs[device_id].is_on IN
    [devices |-> [devs EXCEPT ![device_id].is_on = new_state,
                              ![device_id].last_switched = t],
     logs |-> Append(logs, LogRow(user_id, "Device Toggle", <<device_id>>)),
     new_state |-> new_state]

(***************************************************************************)
(* DeviceController.toggle_device                                         *)
(***************************************************************************)
\* (mutant) the guard reads the VIP column instead of the critical column
CriticalDeniedWrongColumn(room, force) == room.is_vip /\ ~force

\* the critical-room check of toggle_device
CriticalDenied(room, force) == room.is_critical /\ ~force

\* (mutant) the VIP entry is written for every room
VipLoggedAnyRoom(room, logs, user_id, device_id) ==
    log_vip_access(logs, user_id, device_id)

\* the VIP branch of toggle_device
VipLogged(room, logs, user_id, device_id) ==
    IF room.is_vip THEN log_vip_access(logs, user_id, device_id) ELSE logs

ToggleResult(devs, logs, device_id, user_id, force, t) ==
    LET room_status == get_room_by_device(devs, device_id) IN
    IF ~room_status.found
    THEN [devices |-> devs, logs |-> logs, ok |-> FALSE,
          msg |-> "Device not found"]
    ELSE IF CriticalDenied(room_status.room, force)
    THEN [devices |-> devs, logs |-> logs, ok |-> FALSE,
          msg |-> "Critical room - Admin permission required"]
    ELSE LET logs1 == VipLogged(room_status.room, logs, user_id, device_id)
             r == db_toggle_device(devs, logs1, device_id, user_id, t)
         IN  [devices |-> r.devices, logs |-> r.logs, ok |-> TRUE,
              msg |-> IF r.new_state THEN "Device ON" ELSE "Device OFF"]

Called(op, device_id, user_id, force, building_id, floor, ok, msg) ==
    [op |-> op, device_id |-> device_id, user_id |-> user_id, force |-> force,
     building_id |-> building_id, floor |-> floor, ok |-> ok, msg |-> msg,
     now |-> now, devices |-> devices, logs |-> activity_logs,
     alerts |-> system_alerts, status |-> device_status,
     device_logs |-> device_logs, calls |-> last.calls]

ToggleCall(device_id, user_id, force) ==
    LET r == ToggleResult(devices, activity_logs, device_id, user_id, force, now) IN
    /\ Len(activity_logs) < MaxLog
    /\ devices' = r.devices
    /\ activity_logs' = r.logs
    /\ last' = Called("toggle_device", device_id, user_id, force, None, None,
                      r.ok, r.msg)
    /\ UNCHANGED <<now, sched, rooms, system_alerts, dbTables>>

\* toggle_device called while no rule pass is running
toggle_device(device_id, user_id, force) ==
    ToggleCall(device_id, user_id, force) /\ UNCHANGED rot

(***************************************************************************)
(* DeviceController.auto_control_empty_rooms                               *)
(***************************************************************************)
\* (mutant) the rule switches ACs off too
AutoControllableWithAC == {"light", "fan", "projector", "ac"}

\* the device kinds the empty-room rule switches off
AutoControllable == {"light", "fan", "projector"}

\* (mutant) the query without its is_critical condition
EmptyRoomsAnyCriticality(rms) == {r \in DOMAIN rms : rms[r].occupancy = 0}

\* SELECT ... FROM rooms r WHERE r.occupancy = 0 AND r.is_critical = FALSE
EmptyRooms(rms) ==
    {r \in DOMAIN rms : rms[r].occupancy = 0 /\ rms[r].is_critical = FALSE}

\* SELECT id, device_type FROM devices WHERE room_id = ? AND is_on = TRUE
ActiveDevices(devs, room_id) ==
    {d \in DOMAIN devs : devs[d].room_id = room_id /\ devs[d].is_on}

\* the body of the device loop: the UPDATE and the "Auto OFF" entry
AutoOffDevice(st, device_id, t) ==
    IF st.devices[device_id].device_type \in AutoControllable
    THEN [devices |-> [st.devices EXCEPT ![device_id].is_on = FALSE,
                                         ![device_id].last_switched = t],
          logs |-> Append(st.logs,
                          LogRow(SystemUser, "Auto OFF", <<device_id>>))]
    ELSE st

RECURSIVE AutoOffDevices(_, _, _)
AutoOffDevices(st, todo, t) ==
    IF todo = {} THEN st
    ELSE LET d == Min(todo) IN
         AutoOffDevices(AutoOffDevice(st, d, t), todo \ {d}, t)

RECURSIVE AutoOffRooms(_, _, _)
AutoOffRooms(st, todo, t) ==
    IF todo = {} THEN st
    ELSE LET r == Min(todo) IN
         AutoOffRooms(AutoOffDevices(st, ActiveDevices(st.devices, r), t),
                      todo \ {r}, t)

AutoControlResult(devs, logs, t) ==
    AutoOffRooms([devices |-> devs, logs |-> logs], EmptyRooms(rooms), t)

auto_control_empty_rooms ==
    LET r == AutoControlResult(devices, activity_logs, now) IN
    /\ Len(activity_logs) < MaxLog
    /\ devices' = r.devices
    /\ activity_logs' = r.logs
    /\ last' = Called("auto_control_empty_rooms", None, None, FALSE, None, None,
                      TRUE, "")
    /\ UNCHANGED <<now, sched, rooms, system_alerts, rot, dbTables>>

(***************************************************************************)
(* DeviceController.ac_rotation_system                                     *)
(***************************************************************************)
\* (mutant) the comparison includes the bound: last_switched <= ?
OverdueACsInclusive(devs, t) ==
    {d \in DOMAIN devs : /\ devs[d].device_type = "ac"
                         /\ devs[d].is_on
                         /\ devs[d].last_switched <= t - EightHours}

\* SELECT ... WHERE device_type = 'ac' AND is_on = TRUE AND last_switched < ?
\* with ? = datetime.now() - timedelta(hours=8)
OverdueACs(devs, t) ==
    {d \in DOMAIN devs : /\ devs[d].device_type = "ac"
                         /\ devs[d].is_on
                         /\ devs[d].last_switched < t - EightHours}

\* SELECT id FROM devices WHERE room_id = ? AND device_type = 'ac'
\*   AND is_on = FALSE AND status = 'active' ORDER BY last_switched ASC LIMIT 1
\* The rows the query may return: ORDER BY names no second key, so any of the
\* rows with the least last_switched may come first.
Replacements(devs, room_id) ==
    LET c == {d \in DOMAIN devs : /\ devs[d].room_id = room_id
                                  /\ devs[d].device_type = "ac"
                                  /\ devs[d].is_on = FALSE
                                  /\ devs[d].status = "active"}
    IN  {d \in c : \A e \in c : devs[d].last_switched <= devs[e].last_switched}

\* UPDATE devices SET is_on = FALSE, last_switched = ? WHERE id = ?
UpdateOff(devs, ac_id, current_time) ==
    [devs EXCEPT ![ac_id].is_on = FALSE, ![ac_id].last_switched = current_time]

\* (mutant) the replacement is switched ON without a new last_switched
UpdateOnNoStamp(devs, replacement_id, current_time) ==
    [devs EXCEPT ![replacement_id].is_on = TRUE]

\* UPDATE devices SET is_on = TRUE, last_switched = ? WHERE id = ?
UpdateOn(devs, replacement_id, current_time) ==
    [devs EXCEPT ![replacement_id].is_on = TRUE,
                 ![replacement_id].last_switched = current_time]

\* INSERT INTO activity_logs ... "AC Rotation", "Room R: AC X -> AC Y"
RotationLog(room_id, ac_id, replacement_id) ==
    LogRow(SystemUser, "AC Rotation", <<room_id, ac_id, replacement_id>>)

\* the two UPDATEs and the "AC Rotation" entry of one swap
SwapACs(st, ac_id, room_id, replacement_id, current_time) ==
    [devices |-> UpdateOn(UpdateOff(st.devices, ac_id, current_time),
                          replacement_id, current_time),
     logs |-> Append(st.logs, RotationLog(room_id, ac_id, replacement_id))]

\* the body of the loop over overdue_acs, for the row (ac_id, room_id): every
\* store the iteration can leave
RotateOne(st, ac_id, room_id, t) ==
    IF Replacements(st.devices, room_id) = {} THEN {st}
    ELSE {SwapACs(st, ac_id, room_id, replacement_id, t) :
            replacement_id \in Replacements(st.devices, room_id)}

\* the loop over overdue_acs, whose rows (id, room_id) were fetched from
\* `snapshot` before the loop; the SELECT names no order
RECURSIVE RotationLoop(_, _, _, _)
RotationLoop(st, snapshot, todo, t) ==
    IF todo = {} THEN {st}
    ELSE UNION {UNION {RotationLoop(s, snapshot, todo \ {ac}, t) :
                         s \in RotateOne(st, ac, snapshot[ac].room_id, t)} :
                  ac \in todo}

RotationResults(devs, logs, t) ==
    RotationLoop([devices |-> devs, logs |-> logs], devs, OverdueACs(devs, t), t)

ac_rotation_system ==
    \E r \in RotationResults(devices, activity_logs, now) :
        /\ Len(activity_logs) < MaxLog
        /\ devices' = r.devices
        /\ activity_logs' = r.logs
        /\ last' = Called("ac_rotation_system", None, None, FALSE, None, None,
                          TRUE, "")
        /\ UNCHANGED <<now, sched, rooms, system_alerts, rot, dbTables>>

(***************************************************************************)
(* DeviceController.emergency_shutdown                                     *)
(***************************************************************************)
\* (mutant) the subquery without its is_critical = FALSE condition
ShutdownRoomsAnyRoom(rms, building_id, floor) ==
    {r \in DOMAIN rms : /\ Truthy(building_id) => rms[r].building_id = building_id
                        /\ Truthy(floor) => rms[r].floor = floor}

\* SELECT id FROM rooms WHERE is_critical = FALSE [AND building_id = ?]
\*   [AND floor = ?]
ShutdownRooms(rms, building_id, floor) ==
    {r \in DOMAIN rms : /\ rms[r].is_critical = FALSE
                        /\ Truthy(building_id) => rms[r].building_id = building_id
                        /\ Truthy(floor) => rms[r].floor = floor}

EmergencyResult(devs, logs, building_id, floor, t) ==
    [devices |-> [d \in DOMAIN devs |->
                    IF devs[d].room_id \in ShutdownRooms(rooms, building_id, floor)
                    THEN [devs[d] EXCEPT !.is_on = FALSE, !.last_switched = t]
                    ELSE devs[d]],
     logs |-> Append(logs, LogRow(SystemUser, "Emergency Shutdown",
                                  <<building_id, floor>>))]

emergency_shutdown(building_id, floor) ==
    LET r == EmergencyResult(devices, activity_logs, building_id, floor, now) IN
    /\ Len(activity_logs) < MaxLog
    /\ devices' = r.devices
    /\ activity_logs' = r.logs
    /\ last' = Called("emergency_shutdown", None, None, FALSE, building_id,
                      floor, TRUE, "")
    /\ UNCHANGED <<now, sched, rooms, system_alerts, rot, dbTables>>

\* a caller that supplies the force flag, emergency_shutdown(building_id,
\* floor, force=True): the method takes no such argument, Python raises
\* TypeError before the first statement and nothing is written
emergency_shutdown_force(building_id, floor) ==
    /\ Len(activity_logs) < MaxLog
    /\ last' = Called("emergency_shutdown_force", None, None, TRUE,
                      building_id, floor, FALSE, "TypeError")
    /\ UNCHANGED <<now, sched, rooms, devices, activity_logs, system_alerts,
                   rot, dbTables>>

(***************************************************************************)
(* db.py: the devices and device_status tables.  Devices 101 and 102 are   *)
(* the fan and the AC of room 1 ("FAN-001-01", "AC-001-01"), device 201 is *)
(* the fan of room 2; 999 is an identifier no device has.                  *)
(***************************************************************************)
DbDeviceIds == {101, 102, 201}
UnknownDeviceId == 999
DbRoomNumbers == {1, 2}
DbDeviceRoom(d) == IF d = 201 THEN 2 ELSE 1
DbDeviceType(d) == IF d = 102 THEN "ac" ELSE "fan"

\* a device_status row as populate_sample_data and the INSERT of
\* update_device_status write it: the timestamps are NULL
StatusRow(is_on) ==
    [is_on |-> is_on, last_switched_on |-> None, last_switched_off |-> None,
     switch_count |-> 0, updated_at |-> None]

\* the row populate_sample_data inserts for a device
PopulatedRow(is_on) ==
    [StatusRow(is_on) EXCEPT !.switch_count = 5, !.updated_at = 0]

\* get_devices_by_room
get_devices_by_room(room_number) ==
    {d \in DbDeviceIds : DbDeviceRoom(d) = room_number}

\* the optional fields update_device_status copies from **kwargs
StatusKwargs == {"runtime_minutes", "switch_count", "temperature_setting",
                 "speed_setting"}
NoKwargs == [f \in {} |-> 0]

\* update_device_status: the UPDATE, and the INSERT when no row was updated
UpdatedStatus(status, device_id, is_on, kwargs, t) ==
    IF device_id \in DOMAIN status
    THEN [status EXCEPT ![device_id] =
            [f \in DOMAIN @ |->
               CASE f = "is_on" -> is_on
                 [] f = "last_switched_on" /\ is_on -> t
                 [] f = "last_switched_off" /\ ~is_on -> t
                 [] f \in StatusKwargs \cap DOMAIN kwargs -> kwargs[f]
                 [] f = "updated_at" -> t
                 [] OTHER -> @[f]]]
    ELSE [d \in DOMAIN status \cup {device_id} |->
            IF d = device_id THEN [StatusRow(is_on) EXCEPT !.updated_at = t]
            ELSE status[d]]

\* add_energy_log
add_energy_log(logs, device_id, action) ==
    Append(logs, [device_id |-> device_id, action |-> action])

CalledDb(op, device_id, ok) ==
    [Called(op, device_id, None, FALSE, None, None, ok, "")
       EXCEPT !.calls = @ + 1]

\* app.py's fallback toggle_device(device_id, state), which returns what
\* update_device_status returns
app_toggle_device(device_id, state) ==
    /\ last.calls < MaxCalls
    /\ device_status' = UpdatedStatus(device_status, device_id, state, NoKwargs, now)
    /\ last' = CalledDb("app_toggle_device", device_id, TRUE)
    /\ UNCHANGED <<now, sched, rooms, devices, activity_logs, system_alerts, rot,
                   room_occupancy, device_logs>>

\* display_device_card: the Turn ON / Turn OFF button of one device
display_device_card(device_id) ==
    /\ last.calls < MaxCalls
    /\ device_id \in DOMAIN device_status
    /\ LET is_on == device_status[device_id].is_on IN
       /\ device_status' = UpdatedStatus(device_status, device_id, ~is_on,
                                         NoKwargs, now)
       /\ device_logs' = add_energy_log(device_logs, device_id, "manual_toggle")
    /\ last' = CalledDb("display_device_card", device_id, TRUE)
    /\ UNCHANGED <<now, sched, rooms, devices, activity_logs, system_alerts, rot,
                   room_occupancy>>

\* the loop `for device in devices: toggle_device(device['device_id'], ...)`
\* of a bulk operation, target[d] being the state it asks of device d
RECURSIVE BulkToggle(_, _, _, _)
BulkToggle(status, todo, target, t) ==
    IF todo = {} THEN status
    ELSE LET d == Min(todo) IN
         BulkToggle(UpdatedStatus(status, d, target[d], NoKwargs, t),
                    todo \ {d}, target, t)

\* display_room_control: Turn All OFF
turn_all_off(room_id) ==
    LET off == [d \in DbDeviceIds |-> FALSE] IN
    /\ last.calls < MaxCalls
    /\ device_status' = BulkToggle(device_status, get_devices_by_room(room_id),
                                   off, now)
    /\ last' = CalledDb("turn_all_off", room_id, TRUE)
    /\ UNCHANGED <<now, sched, rooms, devices, activity_logs, system_alerts, rot,
                   room_occupancy, device_logs>>

\* display_room_control: Fans Only
fans_only(room_id) ==
    LET fan == [d \in DbDeviceIds |-> DbDeviceType(d) = "fan"] IN
    /\ last.calls < MaxCalls
    /\ device_status' = BulkToggle(device_status, get_devices_by_room(room_id),
                                   fan, now)
    /\ last' = CalledDb("fans_only", room_id, TRUE)
    /\ UNCHANGED <<now, sched, rooms, devices, activity_logs, system_alerts, rot,
                   room_occupancy, device_logs>>

(***************************************************************************)
(* The clock.                                                              *)
(***************************************************************************)
Tick ==
    /\ now < MaxTime
    /\ now' = now + 1
    /\ UNCHANGED <<sched, rooms, devices, activity_logs, system_alerts, rot,
                   dbTables, last>>

(***************************************************************************)
(* The store after provisioning.                                           *)
(***************************************************************************)
\* (history) the time the last occupant left the room: room 3 was left at
\* the hour the model starts, the other rooms eight hours earlier.  No query
\* of the controller reads such a column.
RoomEmptySince(r) == IF r = 3 THEN EightHours ELSE 0

RoomRow(r, critical, occupancy) ==
    [building_id |-> RoomBuilding(r), floor |-> RoomFloor(r),
     occupancy |-> occupancy, is_vip |-> (r = 1), is_critical |-> critical,
     empty_since |-> RoomEmptySince(r)]

DeviceRow(d, is_on, last_switched, status) ==
    [room_id |-> DeviceRoom(d), device_type |-> DeviceType(d), is_on |-> is_on,
     last_switched |-> last_switched, status |-> status, hours_on |-> 0]

\* no rotation pass is running
RotIdle ==
    [pc |-> "idle", overdue |-> <<>>, todo |-> {}, ac_id |-> None,
     replacement_id |-> None, current_time |-> None, in_txn |-> FALSE,
     view |-> <<>>, new_logs |-> <<>>, swaps |-> <<>>, base |-> <<>>]

\* SenseScheduler.__init__: not running, no job registered with the
\* `schedule` module, no scheduler thread
Threads == 1..MaxThreads
SchedIdle ==
    [running |-> FALSE, jobs |-> {}, due |-> {},
     thread |-> [t \in Threads |-> [pc |-> "none", todo |-> {}, job |-> ""]]]

\* a row of room_occupancy
OccupancyRow(is_occupied, person_count) ==
    [is_occupied |-> is_occupied, person_count |-> person_count]

NoCall ==
    [op |-> "none", device_id |-> None, user_id |-> None, force |-> FALSE,
     building_id |-> None, floor |-> None, ok |-> TRUE, msg |-> "",
     now |-> now, devices |-> devices, logs |-> activity_logs,
     alerts |-> system_alerts, status |-> device_status,
     device_logs |-> device_logs, calls |-> 0]

\* the rooms and devices tables
InitFacility ==
    /\ \E c1 \in BOOLEAN, o1 \in {0, 1} :
         rooms = [r \in RoomIds |->
                    IF r = 1 THEN RoomRow(r, c1, o1)
                    ELSE RoomRow(r, r = 2, 0)]
    /\ \E on \in [{2, 3} -> BOOLEAN], ls \in [{2, 3} -> {0, 1}],
          st \in {"active", "maintenance"} :
         devices = [d \in DeviceIds |->
                      IF d \in {2, 3}
                      THEN DeviceRow(d, on[d], ls[d],
                                     IF d = 3 THEN st ELSE "active")
                      ELSE DeviceRow(d, TRUE, 0, "active")]

\* db.py's device_status after populate_sample_data, every device OFF
InitStatusOff ==
    /\ device_status = [d \in DbDeviceIds |-> PopulatedRow(FALSE)]
    /\ device_logs = <<>>
    /\ room_occupancy = [r \in DbRoomNumbers |-> OccupancyRow(FALSE, 0)]

Init ==
    /\ now = EightHours
    /\ InitFacility
    /\ activity_logs = <<>>
    /\ system_alerts = <<>>
    /\ rot = RotIdle
    /\ sched = SchedIdle
    /\ InitStatusOff
    /\ last = NoCall

(***************************************************************************)
(* ac_rotation_system statement by statement, on its own connection, while *)
(* other connections use the store.  The connection is sqlite3's default:  *)
(* a SELECT reads the committed store; the first UPDATE opens a            *)
(* transaction, which holds the write lock until conn.commit(); what the   *)
(* transaction wrote is visible to this connection alone until then, and   *)
(* is dropped if the pass ends in an exception.                            *)
(***************************************************************************)
\* what the pass's connection reads
ConnView == IF rot.in_txn THEN rot.view ELSE devices

\* (mutant) a connection in autocommit mode: every UPDATE is committed at once
StoreAfterUpdateAutocommit(committed, view) == view

\* what the other connections read after an UPDATE of the open transaction
StoreAfterUpdate(committed, view) == committed

\* SELECT d.id, d.room_id, d.device_name, d.last_switched ... ; fetchall()
RotSelectOverdue ==
    /\ rot.pc = "idle"
    /\ Len(activity_logs) < MaxLog
    /\ rot' = [RotIdle EXCEPT
                 !.pc = "loop",
                 !.overdue = [ac \in OverdueACs(devices, now) |->
                                [room_id |-> devices[ac].room_id,
                                 last_switched |-> devices[ac].last_switched]],
                 !.todo = OverdueACs(devices, now)]
    /\ UNCHANGED <<now, sched, rooms, devices, activity_logs, system_alerts, dbTables,
                   last>>

\* the next row of overdue_acs: the replacement query, `if replacement:` and
\* current_time = datetime.now()
RotFindReplacement ==
    /\ rot.pc = "loop"
    /\ \E ac \in rot.todo :
         LET found == Replacements(ConnView, rot.overdue[ac].room_id) IN
         IF found = {}
         THEN rot' = [rot EXCEPT !.todo = @ \ {ac}]
         ELSE \E replacement_id \in found :
                rot' = [rot EXCEPT !.pc = "swap", !.todo = @ \ {ac},
                                   !.ac_id = ac,
                                   !.replacement_id = replacement_id,
                                   !.current_time = now]
    /\ UNCHANGED <<now, sched, rooms, devices, activity_logs, system_alerts, dbTables,
                   last>>

\* the first UPDATE of the swap
RotUpdateOff ==
    /\ rot.pc = "swap"
    /\ LET view == UpdateOff(ConnView, rot.ac_id, rot.current_time) IN
       /\ rot' = [rot EXCEPT
                    !.pc = "off_done", !.in_txn = TRUE, !.view = view,
                    !.base = IF rot.in_txn THEN @ ELSE devices,
                    !.swaps = Append(@, [ac_id |-> rot.ac_id,
                                         replacement_id |-> rot.replacement_id,
                                         current_time |-> rot.current_time,
                                         was |-> ConnView[rot.ac_id]])]
       /\ devices' = StoreAfterUpdate(devices, view)
    /\ UNCHANGED <<now, sched, rooms, activity_logs, system_alerts, dbTables, last>>

\* the second UPDATE of the swap
RotUpdateOn ==
    /\ rot.pc = "off_done"
    /\ LET view == UpdateOn(rot.view, rot.replacement_id, rot.current_time) IN
       /\ rot' = [rot EXCEPT !.pc = "on_done", !.view = view]
       /\ devices' = StoreAfterUpdate(devices, view)
    /\ UNCHANGED <<now, sched, rooms, activity_logs, system_alerts, dbTables, last>>

\* the INSERT of the "AC Rotation" entry
RotLogSwap ==
    /\ rot.pc = "on_done"
    /\ rot' = [rot EXCEPT
                 !.pc = "loop",
                 !.new_logs = Append(@, RotationLog(rot.overdue[rot.ac_id].room_id,
                                                    rot.ac_id,
                                                    rot.replacement_id))]
    /\ UNCHANGED <<now, sched, rooms, devices, activity_logs, system_alerts, dbTables,
                   last>>

\* conn.commit() after the loop.  `swaps` and `base` keep the swaps of the
\* pass and the store it started from until the next command.
RotCommit ==
    /\ rot.pc = "loop"
    /\ rot.todo = {}
    /\ devices' = ConnView
    /\ activity_logs' = activity_logs \o rot.new_logs
    /\ rot' = [RotIdle EXCEPT !.swaps = rot.swaps, !.base = rot.base]
    /\ UNCHANGED <<now, sched, rooms, system_alerts, dbTables, last>>

\* a statement of the pass raises (the store is unavailable): the exception
\* leaves ac_rotation_system, the connection is dropped uncommitted
RotFail ==
    /\ rot.pc /= "idle"
    /\ rot' = [RotIdle EXCEPT !.swaps = rot.swaps, !.base = rot.base]
    /\ UNCHANGED <<now, sched, rooms, devices, activity_logs, system_alerts, dbTables,
                   last>>

\* toggle_device on another connection: it writes when the write lock is free
ConcurrentToggle(device_id, user_id, force) ==
    /\ ~rot.in_txn
    /\ ToggleCall(device_id, user_id, force)
    /\ rot' = IF rot.pc = "idle" THEN RotIdle ELSE rot

\* the scopes a caller passes to emergency_shutdown
BuildingArgs == {None, 1}
FloorArgs == {None, 0, 1}

Next ==
    \/ \E d \in DeviceIds \cup {NoSuchDevice}, u \in Users, f \in BOOLEAN :
         toggle_device(d, u, f)
    \/ auto_control_empty_rooms
    \/ ac_rotation_system
    \/ \E b \in BuildingArgs, f \in FloorArgs : emergency_shutdown(b, f)
    \/ \E b \in BuildingArgs : emergency_shutdown_force(b, None)
    \/ Tick

Spec == Init /\ [][Next]_vars

(***************************************************************************)
(* A rotation pass running beside manual toggles.                          *)
(***************************************************************************)
NextConc ==
    \/ RotSelectOverdue
    \/ RotFindReplacement
    \/ RotUpdateOff
    \/ RotUpdateOn
    \/ RotLogSwap
    \/ RotCommit
    \/ RotFail
    \/ \E d \in DeviceIds, u \in Users, f \in BOOLEAN :
         ConcurrentToggle(d, u, f)
    \/ Tick

\* the pass is followed in an occupied, non-critical room whose ACs all work
InitConc ==
    /\ Init
    /\ ~rooms[1].is_critical
    /\ rooms[1].occupancy = 1
    /\ devices[3].status = "active"

SpecConc == InitConc /\ [][NextConc]_vars

(***************************************************************************)
(* The application over db.py: the device cards and the bulk operations.   *)
(***************************************************************************)
\* one facility, and any is_on in each status row
InitDb ==
    /\ now = EightHours
    /\ rooms = [r \in RoomIds |-> RoomRow(r, r = 2, 0)]
    /\ devices = [d \in DeviceIds |-> DeviceRow(d, FALSE, 0, "active")]
    /\ activity_logs = <<>>
    /\ system_alerts = <<>>
    /\ rot = RotIdle
    /\ \E on \in [DbDeviceIds -> BOOLEAN] :
         device_status = [d \in DbDeviceIds |-> PopulatedRow(on[d])]
    /\ device_logs = <<>>
    /\ room_occupancy = [r \in DbRoomNumbers |-> OccupancyRow(FALSE, 0)]
    /\ sched = SchedIdle
    /\ last = NoCall

NextDb ==
    \/ \E d \in DbDeviceIds \cup {UnknownDeviceId}, state \in BOOLEAN :
         app_toggle_device(d, state)
    \/ \E d \in DbDeviceIds : display_device_card(d)
    \/ \E r \in DbRoomNumbers : turn_all_off(r)
    \/ \E r \in DbRoomNumbers : fans_only(r)
    \/ Tick

SpecDb == InitDb /\ [][NextDb]_vars

(***************************************************************************)
(* scheduler.py: SenseScheduler.  start_scheduler registers the rules with *)
(* the process-wide `schedule` module and starts a daemon thread that      *)
(* calls schedule.run_pending() once a second while self.running.  Of the  *)
(* six jobs the two controller rules are followed; the other four are      *)
(* registered and run the same way.                                        *)
(***************************************************************************)
Rules == {"auto_control_empty_rooms", "ac_rotation_system"}

\* start_scheduler: returns at once when running; the new thread takes the
\* first unused thread slot
start_scheduler ==
    IF sched.running
    THEN UNCHANGED vars
    ELSE /\ \E t \in Threads :
              /\ sched.thread[t].pc = "none"
              /\ \A u \in Threads : u < t => sched.thread[u].pc /= "none"
              /\ sched' = [sched EXCEPT !.running = TRUE, !.jobs = @ \cup Rules,
                                        !.thread[t].pc = "while"]
         /\ UNCHANGED <<now, rooms, devices, activity_logs, system_alerts, rot,
                        dbTables, last>>

\* stop_scheduler: clears the flag and the jobs; it does not wait for the
\* thread
stop_scheduler ==
    /\ sched' = [sched EXCEPT !.running = FALSE, !.jobs = {}, !.due = {}]
    /\ UNCHANGED <<now, rooms, devices, activity_logs, system_alerts, rot,
                   dbTables, last>>

\* the interval of a registered job elapses: job.should_run becomes true
JobDue(rule) ==
    /\ rule \in sched.jobs \ sched.due
    /\ sched' = [sched EXCEPT !.due = @ \cup {rule}]
    /\ UNCHANGED <<now, rooms, devices, activity_logs, system_alerts, rot,
                   dbTables, last>>

\* _run_scheduler: `while self.running:` and the call of run_pending, which
\* collects the jobs that should run
ThreadWhile(t) ==
    /\ sched.thread[t].pc = "while"
    /\ sched' = IF sched.running
                THEN [sched EXCEPT !.thread[t].pc = "run_pending",
                                   !.thread[t].todo = sched.due]
                ELSE [sched EXCEPT !.thread[t].pc = "done"]
    /\ UNCHANGED <<now, rooms, devices, activity_logs, system_alerts, rot,
                   dbTables, last>>

\* run_pending: the next collected job starts, job_func() is called
ThreadRunJob(t) ==
    /\ sched.thread[t].pc = "run_pending"
    /\ \E rule \in sched.thread[t].todo :
         sched' = [sched EXCEPT !.thread[t].pc = "job",
                                !.thread[t].job = rule,
                                !.thread[t].todo = @ \ {rule}]
    /\ UNCHANGED <<now, rooms, devices, activity_logs, system_alerts, rot,
                   dbTables, last>>

\* job_func() returns: the job's last_run and next_run are set
ThreadJobDone(t) ==
    /\ sched.thread[t].pc = "job"
    /\ sched' = [sched EXCEPT !.due = @ \ {sched.thread[t].job},
                              !.thread[t].pc = "run_pending",
                              !.thread[t].job = ""]
    /\ UNCHANGED <<now, rooms, devices, activity_logs, system_alerts, rot,
                   dbTables, last>>

\* job_func() raises (the store is unavailable mid-pass): neither
\* run_pending nor the `while` loop catches, so the exception ends the
\* thread; self.running and the job's next_run are left as they were
ThreadJobFails(t) ==
    /\ sched.thread[t].pc = "job"
    /\ sched' = [sched EXCEPT !.thread[t].pc = "crashed",
                              !.thread[t].job = "",
                              !.thread[t].todo = {}]
    /\ UNCHANGED <<now, rooms, devices, activity_logs, system_alerts, rot,
                   dbTables, last>>

\* run_pending returns; time.sleep(1)
ThreadSleep(t) ==
    /\ sched.thread[t].pc = "run_pending"
    /\ sched.thread[t].todo = {}
    /\ sched' = [sched EXCEPT !.thread[t].pc = "while"]
    /\ UNCHANGED <<now, rooms, devices, activity_logs, system_alerts, rot,
                   dbTables, last>>

InitSched ==
    /\ InitDb
    /\ device_status = [d \in DbDeviceIds |-> PopulatedRow(FALSE)]

NextSched ==
    \/ start_scheduler
    \/ stop_scheduler
    \/ \E rule \in Rules : JobDue(rule)
    \/ \E t \in Threads : ThreadWhile(t)
    \/ \E t \in Threads : ThreadRunJob(t)
    \/ \E t \in Threads : ThreadJobDone(t)
    \/ \E t \in Threads : ThreadJobFails(t)
    \/ \E t \in Threads : ThreadSleep(t)

SpecSched == InitSched /\ [][NextSched]_vars

(***************************************************************************)
(* db.py: the alert store and the occupancy records, as the application    *)
(* calls them.  alert_id is the position of the row (AUTOINCREMENT).       *)
(***************************************************************************)
\* CHECK (alert_type IN ('critical', 'warning', 'info'))
AlertTypes == {"critical", "warning", "info"}

\* (mutant) the UPDATE without its WHERE clause
MarkReadEveryAlert(alerts, alert_id) ==
    [i \in DOMAIN alerts |-> [alerts[i] EXCEPT !.is_read = TRUE]]

\* UPDATE system_alerts SET is_read = TRUE WHERE alert_id = ?
MarkRead(alerts, alert_id) ==
    [i \in DOMAIN alerts |->
        IF i = alert_id THEN [alerts[i] EXCEPT !.is_read = TRUE] ELSE alerts[i]]

\* INSERT INTO system_alerts (alert_type, title, message, room_id, device_id):
\* is_read takes its default FALSE; a type the CHECK rejects raises
\* IntegrityError and nothing is inserted
InsertAlert(alerts, title, alert_type, room_id, device_id) ==
    IF alert_type \in AlertTypes
    THEN [alerts |-> Append(alerts, [alert_type |-> alert_type, title |-> title,
                                     room_id |-> room_id,
                                     device_id |-> device_id,
                                     is_read |-> FALSE]),
          ok |-> TRUE]
    ELSE [alerts |-> alerts, ok |-> FALSE]

\* a call of the alert store or of update_room_occupancy, with its arguments,
\* its return value and the two tables as they were
CalledStore(op, id, is_occupied, person_count, ok) ==
    [op |-> op, alert_id |-> id, room_number |-> id,
     is_occupied |-> is_occupied, person_count |-> person_count, ok |-> ok,
     alerts |-> system_alerts, occupancy |-> room_occupancy]

add_system_alert(title, alert_type, room_id, device_id) ==
    LET r == InsertAlert(system_alerts, title, alert_type, room_id, device_id)
    IN  /\ Len(system_alerts) < MaxAlerts
        /\ system_alerts' = r.alerts
        /\ last' = CalledStore("add_system_alert", None, FALSE, None, r.ok)
        /\ UNCHANGED <<now, sched, rooms, devices, activity_logs, rot,
                       dbTables>>

mark_alert_read(alert_id) ==
    /\ system_alerts' = MarkRead(system_alerts, alert_id)
    /\ last' = CalledStore("mark_alert_read", alert_id, FALSE, None, TRUE)
    /\ UNCHANGED <<now, sched, rooms, devices, activity_logs, rot, dbTables>>

\* update_room_occupancy.  person_count defaults to 1 or 0.  The INSERT OR
\* REPLACE names the columns last_entry_time and last_exit_time inside its
\* VALUES list, where no row is in scope: sqlite rejects the statement ("no
\* such column") for every argument, the except branch logs the error and
\* returns False, and the table is as it was.
UpdatedOccupancy(occupancy, room_number, is_occupied, person_count) ==
    LET count == IF person_count = None
                 THEN (IF is_occupied THEN 1 ELSE 0)
                 ELSE person_count
    IN  [occupancy |-> occupancy, person_count |-> count, ok |-> FALSE]

update_room_occupancy(op, room_number, is_occupied, person_count) ==
    LET r == UpdatedOccupancy(room_occupancy, room_number, is_occupied,
                              person_count)
    IN  /\ room_occupancy' = r.occupancy
        /\ last' = CalledStore(op, room_number, is_occupied, r.person_count,
                               r.ok)
        /\ UNCHANGED <<now, sched, rooms, devices, activity_logs,
                       system_alerts, rot, device_status, device_logs>>

\* display_room_control: "Mark as Occupied", "Mark as Empty", "Update Count"
mark_occupied(room_id) ==
    update_room_occupancy("mark_occupied", room_id, TRUE,
                          room_occupancy[room_id].person_count + 1)

mark_empty(room_id) ==
    update_room_occupancy("mark_empty", room_id, FALSE, 0)

update_count(room_id, person_count) ==
    update_room_occupancy("update_count", room_id, person_count > 0,
                          person_count)

\* populate_sample_data: is_occupied is drawn at random and person_count is
\* randint(0, 10) for an occupied room, 0 for an empty one
PopulatedOccupancy ==
    {OccupancyRow(FALSE, 0)} \cup {OccupancyRow(TRUE, n) : n \in {0, 1, 10}}

InitStore ==
    /\ now = EightHours
    /\ rooms = [r \in RoomIds |-> RoomRow(r, r = 2, 0)]
    /\ devices = [d \in DeviceIds |-> DeviceRow(d, FALSE, 0, "active")]
    /\ activity_logs = <<>>
    /\ system_alerts = <<>>
    /\ rot = RotIdle
    /\ sched = SchedIdle
    /\ device_status = [d \in DbDeviceIds |-> PopulatedRow(FALSE)]
    /\ device_logs = <<>>
    /\ \E row \in PopulatedOccupancy :
         room_occupancy = [r \in DbRoomNumbers |->
                             IF r = 1 THEN row ELSE OccupancyRow(FALSE, 0)]
    /\ last = CalledStore("none", None, FALSE, None, TRUE)

NextStore ==
    \/ \E type \in {"critical", "warning", "notice"}, d \in {None, 101} :
         add_system_alert("Emergency Shutdown", type, None, d)
    \/ \E a \in 1..(MaxAlerts + 1) : mark_alert_read(a)
    \/ \E r \in DbRoomNumbers : mark_occupied(r)
    \/ \E r \in DbRoomNumbers : mark_empty(r)
    \/ \E r \in DbRoomNumbers, n \in {0, 2} : update_count(r, n)
    \/ \E r \in DbRoomNumbers, o \in BOOLEAN :
         update_room_occupancy("update_room_occupancy", r, o, None)

SpecStore == InitStore /\ [][NextStore]_vars

(***************************************************************************)
(* Properties.  `last` holds the store as it was when the last command was *)
(* called, so a state describes one call: before in `last`, after in the   *)
(* tables.                                                                 *)
(***************************************************************************)
RoomOf(d) == rooms[last.devices[d].room_id]
DevicesIn(r) == {d \in DeviceIds : last.devices[d].room_id = r}
IsAutomation == last.op \in {"auto_control_empty_rooms", "ac_rotation_system"}
Appended == SubSeq(activity_logs, Len(last.logs) + 1, Len(activity_logs))
TurnedOff == {d \in DeviceIds : last.devices[d].is_on /\ ~devices[d].is_on}
TurnedOn == {d \in DeviceIds : ~last.devices[d].is_on /\ devices[d].is_on}

\* the ACs a rotation pass called in the state of `last` selects, and the
\* eligible replacements (same room, OFF, active) an AC had at that moment
OverdueAtCall == OverdueACs(last.devices, last.now)
EligibleAtCall(ac) ==
    {d \in DevicesIn(last.devices[ac].room_id) :
        /\ last.devices[d].device_type = "ac"
        /\ ~last.devices[d].is_on
        /\ last.devices[d].status = "active"}

\* C1: toggle_device without force on a device of a critical room returns
\* (False, permission denied) and leaves the devices and the activity log
\* (no VIP entry either) as they were.
C1_CriticalToggleDenied ==
    (/\ last.op = "toggle_device"
     /\ last.device_id \in DeviceIds
     /\ RoomOf(last.device_id).is_critical
     /\ ~last.force)
    => /\ ~last.ok
       /\ last.msg = "Critical room - Admin permission required"
       /\ devices = last.devices
       /\ activity_logs = last.logs

C1_Witness ==
    /\ last.op = "toggle_device"
    /\ last.device_id \in DeviceIds
    /\ RoomOf(last.device_id).is_critical
    /\ RoomOf(last.device_id).is_vip
    /\ ~last.force
    /\ ~last.ok

\* C2: no automated rule (empty-room auto-off, AC rotation) changes is_on of
\* a device of a critical room.
C2_AutomationSparesCriticalRooms ==
    IsAutomation =>
        \A d \in DeviceIds :
            RoomOf(d).is_critical => devices[d].is_on = last.devices[d].is_on

\* C3: after one rotation pass every AC that was ON and overdue at its start
\* and had an eligible replacement is OFF, and exactly one AC of its room that
\* was OFF before the pass is ON.
C3_RotationSwapsEachOverdueAC ==
    last.op = "ac_rotation_system" =>
        \A ac \in OverdueAtCall :
            EligibleAtCall(ac) /= {} =>
                /\ ~devices[ac].is_on
                /\ Cardinality({d \in DevicesIn(last.devices[ac].room_id) :
                                   /\ devices[d].device_type = "ac"
                                   /\ d \in TurnedOn}) = 1

\* C4: after one rotation pass every overdue AC that had no eligible
\* replacement is still ON, its row is unchanged, and the alert store holds a
\* warning alert that references it.
C4_NoSpareKeepsRunningAndWarns ==
    last.op = "ac_rotation_system" =>
        \A ac \in OverdueAtCall :
            EligibleAtCall(ac) = {} =>
                /\ devices[ac].is_on
                /\ devices[ac] = last.devices[ac]
                /\ \E i \in 1..Len(system_alerts) :
                       /\ system_alerts[i].alert_type = "warning"
                       /\ system_alerts[i].device_id = ac

C8_EmergencyShutdownBuilding ==
    (/\ last.op = "emergency_shutdown"
     /\ last.building_id /= None
     /\ last.floor = None)
    => /\ \A d \in DeviceIds :
            RoomOf(d).building_id = last.building_id =>
                IF RoomOf(d).is_critical
                THEN devices[d] = last.devices[d]
                ELSE ~devices[d].is_on
       /\ Len(Appended) = 1
       /\ Appended[1] = LogRow(SystemUser, "Emergency Shutdown",
                               <<last.building_id, last.floor>>)

C8_Witness ==
    /\ last.op = "emergency_shutdown"
    /\ last.building_id = 1
    /\ last.floor = None
    /\ \E d, c \in DeviceIds :
          /\ RoomOf(d).building_id = 1 /\ ~RoomOf(d).is_critical
          /\ d \in TurnedOff
          /\ RoomOf(c).building_id = 1 /\ RoomOf(c).is_critical
          /\ devices[c].is_on

\* the swaps the rotation pass has started since the last command, and
\* whether the store every connection reads shows one of them applied
SwapsOfPass == {rot.swaps[i] : i \in 1..Len(rot.swaps)}
ShowsOff(s) ==
    /\ devices[s.ac_id] /= rot.base[s.ac_id]
    /\ ~devices[s.ac_id].is_on
    /\ devices[s.ac_id].last_switched = s.current_time
ShowsOn(s) ==
    /\ devices[s.replacement_id].is_on
    /\ devices[s.replacement_id].last_switched = s.current_time

\* the row of d is the row one swap of the pass wrote: is_on and the
\* timestamp of the same UPDATE
WrittenBySwap(d) ==
    \E s \in SwapsOfPass :
        /\ devices[d].last_switched = s.current_time
        /\ \/ s.ac_id = d /\ ~devices[d].is_on
           \/ s.replacement_id = d /\ devices[d].is_on

\* C5: the committed store (what another connection, a concurrent toggle or
\* a reader after a failed pass sees) never shows an overdue AC switched OFF
\* by a rotation swap without showing the swap's replacement switched ON with
\* the same timestamp.
C5_SwapIsAtomic ==
    \A s \in SwapsOfPass : ShowsOff(s) => ShowsOn(s)

C5_Witness ==
    /\ rot.pc = "idle"
    /\ devices /= rot.base
    /\ \E s \in SwapsOfPass :
          /\ rot.base[s.ac_id].is_on
          /\ ~rot.base[s.replacement_id].is_on
          /\ ShowsOff(s)
          /\ ShowsOn(s)

\* C6: when a toggle and a rotation pass interleave on one device, every row
\* holds the is_on and the timestamp of one writer, and every swap the pass
\* applies finds its overdue AC as the pass selected it: ON, with the
\* last_switched the selection read.
C6_ToggleRotationConsistent ==
    /\ \A d \in DeviceIds :
          (Len(rot.swaps) > 0 /\ devices[d] /= rot.base[d]) => WrittenBySwap(d)
    /\ \A s \in SwapsOfPass :
          rot.pc /= "idle" =>
              /\ s.was.is_on
              /\ s.was.last_switched = rot.overdue[s.ac_id].last_switched

\* C9: a toggle of a device identifier that does not exist reports failure
\* ("Device not found" from the controller) and writes nothing: no device
\* row, no status row, no log entry, whichever toggle implementation ran.
C9_UnknownDeviceToggleWritesNothing ==
    /\ (last.op = "toggle_device" /\ last.device_id \notin DeviceIds)
       => /\ ~last.ok
          /\ last.msg = "Device not found"
          /\ devices = last.devices
          /\ activity_logs = last.logs
    /\ (last.op = "app_toggle_device" /\ last.device_id \notin DbDeviceIds)
       => /\ ~last.ok
          /\ device_status = last.status
          /\ device_logs = last.device_logs

\* C10: a status update that leaves a device in the state it was in (OFF to
\* OFF, ON to ON) leaves its last_switched_on, last_switched_off and
\* switch_count as they were, and a command that changes no device's state
\* appends no log entry.
C10_SameStateIsNoOp ==
    last.op \in {"app_toggle_device", "turn_all_off", "fans_only"} =>
        /\ \A d \in DOMAIN last.status :
              device_status[d].is_on = last.status[d].is_on =>
                  /\ device_status[d].last_switched_on
                         = last.status[d].last_switched_on
                  /\ device_status[d].last_switched_off
                         = last.status[d].last_switched_off
                  /\ device_status[d].switch_count = last.status[d].switch_count
        /\ (\A d \in DOMAIN last.status :
               device_status[d].is_on = last.status[d].is_on)
           => device_logs = last.device_logs

\* the commands of the status-update path (db.py, app.py)
StatusCommands ==
    {"app_toggle_device", "display_device_card", "turn_all_off", "fans_only"}

\* C11: every change of a device's is_on stamps the matching timestamp
\* (last_switched_on when the device goes ON, last_switched_off when it goes
\* OFF; last_switched in the controller's devices table) with the time of the
\* command and increments the device's switch_count by exactly one.
C11_TransitionStampsAndCounts ==
    /\ last.op \in StatusCommands =>
          \A d \in DOMAIN last.status :
              device_status[d].is_on /= last.status[d].is_on =>
                  /\ IF device_status[d].is_on
                     THEN device_status[d].last_switched_on = last.now
                     ELSE device_status[d].last_switched_off = last.now
                  /\ device_status[d].switch_count
                         = last.status[d].switch_count + 1
    /\ last.op \notin StatusCommands \cup {"none"} =>
          \A d \in TurnedOn \cup TurnedOff :
              devices[d].last_switched = last.now

\* the threads that are inside job_func() of a rule
Executing(rule) ==
    {t \in Threads : sched.thread[t].pc = "job" /\ sched.thread[t].job = rule}

\* C12: at no time are two executions of the same rule in progress, whatever
\* the ticks, their delays and the start_scheduler / stop_scheduler calls.
C12_SameRuleNeverOverlaps ==
    \A rule \in Rules : Cardinality(Executing(rule)) <= 1

\* the audit entry e identifies device d
LogNames(e, d) ==
    \/ e.action \in {"Device Toggle", "Auto OFF"} /\ e.details = <<d>>
    \/ e.action = "AC Rotation" /\ d \in {e.details[2], e.details[3]}

\* the actor of the last command: the user of a manual toggle, "system" (user
\* 1) for an automated or emergency command
Actor == IF last.op = "toggle_device" THEN last.user_id ELSE SystemUser

\* C13: for each device whose is_on a command changed (manual toggle,
\* auto-off, AC rotation, emergency shutdown) the command appended an audit
\* entry that identifies the device and the actor.
C13_EveryTransitionLogged ==
    \A d \in TurnedOn \cup TurnedOff :
        \E i \in 1..Len(Appended) :
            /\ LogNames(Appended[i], d)
            /\ Appended[i].user_id = Actor

\* the "VIP Access" entries among the entries the last command appended
VipEntries == {i \in 1..Len(Appended) : Appended[i].action = "VIP Access"}

InScope(r, building_id, floor) ==
    /\ building_id = None \/ rooms[r].building_id = building_id
    /\ floor = None \/ rooms[r].floor = floor

\* C15: an emergency shutdown called with force switches the devices of the
\* critical rooms of its scope OFF; called without force it leaves them as
\* they were.
C15_ForceDecidesCriticalRooms ==
    last.op \in {"emergency_shutdown", "emergency_shutdown_force"} =>
        \A d \in DeviceIds :
            (/\ RoomOf(d).is_critical
             /\ InScope(last.devices[d].room_id, last.building_id, last.floor))
            => IF last.force
               THEN ~devices[d].is_on
               ELSE devices[d] = last.devices[d]

\* C16: an automation pass run again on the store the pass has just left,
\* at the same time, changes no device row and appends no log entry.
C16_AutomationIdempotent ==
    /\ last.op = "auto_control_empty_rooms" =>
          AutoControlResult(devices, activity_logs, last.now)
              = [devices |-> devices, logs |-> activity_logs]
    /\ last.op = "ac_rotation_system" =>
          \A r \in RotationResults(devices, activity_logs, last.now) :
              r = [devices |-> devices, logs |-> activity_logs]

C16_Witness ==
    /\ last.op = "ac_rotation_system"
    /\ Len(Appended) = 2
    /\ \E ac \in TurnedOff, replacement \in TurnedOn :
          /\ devices[ac].last_switched = last.now
          /\ devices[replacement].last_switched = last.now

\* one step of the alert store: the alerts that exist keep their place, a
\* read alert stays read, a new alert is unread, and an alert only becomes
\* read by the mark_alert_read call that names it
AlertStep ==
    /\ Len(system_alerts') >= Len(system_alerts)
    /\ \A i \in 1..Len(system_alerts) :
          /\ system_alerts[i].is_read => system_alerts'[i].is_read
          /\ system_alerts'[i].is_read /= system_alerts[i].is_read =>
                 /\ last'.op = "mark_alert_read"
                 /\ last'.alert_id = i
    /\ \A i \in (Len(system_alerts) + 1)..Len(system_alerts') :
          ~system_alerts'[i].is_read

\* C17: an alert is unread when add_system_alert creates it; under any
\* sequence of add_system_alert and mark_alert_read calls its is_read only
\* ever goes from false to true, and a call changes no other alert's is_read.
C17_IsReadMonotonic == [][AlertStep]_vars

C17_Witness ==
    /\ last.op = "mark_alert_read"
    /\ Len(system_alerts) = 2
    /\ last.alert_id \in 1..2
    /\ ~last.alerts[last.alert_id].is_read
    /\ system_alerts[last.alert_id].is_read
    /\ \E i \in 1..2 : ~system_alerts[i].is_read

\* the commands that call update_room_occupancy
OccupancyCommands ==
    {"mark_occupied", "mark_empty", "update_count", "update_room_occupancy"}

\* C18: after an occupancy update every room's record has is_occupied
\* exactly when person_count > 0, and person_count >= 0.
C18_OccupiedIffPersons ==
    last.op \in OccupancyCommands =>
        \A r \in DOMAIN room_occupancy :
            /\ room_occupancy[r].is_occupied
                   <=> room_occupancy[r].person_count > 0
            /\ room_occupancy[r].person_count >= 0

\* C19: the status table holds exactly one record for each provisioned
\* device and no record for any other identifier.
C19_OneStatusPerDevice == DOMAIN device_status = DbDeviceIds

\* the minutes room r had been empty when the last command was called
EmptyMinutes(r) == (last.now - rooms[r].empty_since) * 60

\* C20: the empty-room pass switches devices off only in rooms that have
\* been empty for at least the threshold (15 minutes); no device of a room
\* that became empty less than 15 minutes before the pass is changed.
C20_AutoOffWaitsForThreshold ==
    last.op = "auto_control_empty_rooms" =>
        /\ \A d \in TurnedOff :
              EmptyMinutes(last.devices[d].room_id) >= EmptyThresholdMinutes
        /\ \A d \in DeviceIds :
              (/\ RoomOf(d).occupancy = 0
               /\ EmptyMinutes(last.devices[d].room_id) < EmptyThresholdMinutes)
              => devices[d] = last.devices[d]

\* C21: the empty-room pass leaves every device of a critical room as it
\* was (is_on and timestamp), whatever the room's occupancy and the device
\* kind, and appends no entry about such a device.
C21_AutoOffSparesCriticalRooms ==
    last.op = "auto_control_empty_rooms" =>
        \A d \in DeviceIds :
            RoomOf(d).is_critical =>
                /\ devices[d] = last.devices[d]
                /\ \A i \in 1..Len(Appended) : ~LogNames(Appended[i], d)

C21_Witness ==
    /\ last.op = "auto_control_empty_rooms"
    /\ TurnedOff /= {}
    /\ \E d \in DeviceIds :
          /\ RoomOf(d).is_critical
          /\ RoomOf(d).occupancy = 0
          /\ devices[d].device_type \in {"fan", "light"}
          /\ last.devices[d].is_on
          /\ devices[d].is_on

\* the hours an AC had been in its state when the last command was called,
\* the ACs that were ON then, and the ACs the pass names as switched off
HoursRun(d) == last.now - last.devices[d].last_switched
OnACsAtCall ==
    {d \in DeviceIds : last.devices[d].device_type = "ac" /\ last.devices[d].is_on}
RotatedOut == {Appended[i].details[2] : i \in 1..Len(Appended)}

\* C22 (as claimed): the pass selects an ON AC exactly when it has run for
\* 8 hours or more, and switches off no AC that has run for less.
C22_OverdueAtEightHours ==
    last.op = "ac_rotation_system" =>
        /\ OverdueAtCall = {d \in OnACsAtCall : HoursRun(d) >= EightHours}
        /\ \A d \in RotatedOut : HoursRun(d) >= EightHours

\* C22 (amended): the pass selects an ON AC exactly when it has run for more
\* than 8 hours.  It switches off only ACs that were ON for more than 8 hours
\* when it was called; an AC that has run exactly 8 hours or less keeps its
\* row; the only AC of a room that has run for more than 8 hours is switched
\* off when the room has a spare.
C22_OverdueAfterEightHours ==
    last.op = "ac_rotation_system" =>
        /\ OverdueAtCall = {d \in OnACsAtCall : HoursRun(d) > EightHours}
        /\ \A d \in RotatedOut :
              d \in OnACsAtCall /\ HoursRun(d) > EightHours
        /\ \A d \in OnACsAtCall :
              HoursRun(d) <= EightHours => devices[d] = last.devices[d]
        /\ \A d \in OnACsAtCall :
              (/\ HoursRun(d) > EightHours
               /\ EligibleAtCall(d) /= {}
               /\ \A e \in OnACsAtCall \ {d} :
                     last.devices[e].room_id = last.devices[d].room_id
                         => HoursRun(e) <= EightHours)
              => d \in RotatedOut /\ ~devices[d].is_on

C22_Witness ==
    /\ last.op = "ac_rotation_system"
    /\ \E a, b \in OnACsAtCall :
          /\ HoursRun(a) > EightHours
          /\ a \in RotatedOut
          /\ ~devices[a].is_on
          /\ HoursRun(b) = EightHours
          /\ devices[b] = last.devices[b]

\* C23: the replacement of an overdue AC is an AC of the same room that was
\* OFF and active, with the oldest last_switched among those, the lowest
\* identifier among the oldest (stated for a pass that made one swap, whose
\* candidates are those of the store the pass was called on).
C23_ReplacementByAgeThenId ==
    (last.op = "ac_rotation_system" /\ Len(Appended) = 1) =>
        LET ac == Appended[1].details[2]
            replacement == Appended[1].details[3]
        IN  /\ replacement \in EligibleAtCall(ac)
            /\ \A c \in EligibleAtCall(ac) :
                  \/ last.devices[replacement].last_switched
                         < last.devices[c].last_switched
                  \/ /\ last.devices[replacement].last_switched
                            = last.devices[c].last_switched
                     /\ replacement <= c

\* the "AC Rotation" entries the last command appended for room r
RotationEntries(r) ==
    {i \in 1..Len(Appended) :
        Appended[i].action = "AC Rotation" /\ Appended[i].details[1] = r}

\* C24: a rotation pass appends exactly one "AC Rotation" entry for each room
\* in which it changed an AC, naming the room, the AC it switched off and the
\* AC it switched on, and no entry for a room in which it changed nothing.
C24_OneRotationEntryPerRoom ==
    last.op = "ac_rotation_system" =>
        \A r \in RoomIds :
            IF \E d \in DevicesIn(r) : devices[d] /= last.devices[d]
            THEN /\ Cardinality(RotationEntries(r)) = 1
                 /\ \A i \in RotationEntries(r) :
                       /\ Appended[i].details[2] \in TurnedOff \cap DevicesIn(r)
                       /\ Appended[i].details[3] \in TurnedOn \cap DevicesIn(r)
            ELSE RotationEntries(r) = {}

\* the step that ends a rotation pass, and what it owes the units (swaps) of
\* the pass: every swap whose entry was written is committed, with its entry,
\* and no overdue AC but the one that failed is left unprocessed
PassEnds == rot.pc /= "idle" /\ rot'.pc = "idle"
UnitsKept ==
    /\ activity_logs' = activity_logs \o rot.new_logs
    /\ \A i \in 1..Len(rot.new_logs) :
          /\ devices'[rot.swaps[i].replacement_id].is_on
          /\ devices'[rot.swaps[i].replacement_id].last_switched
                 = rot.swaps[i].current_time
    /\ Cardinality(rot.todo) <= (IF rot.pc = "loop" THEN 1 ELSE 0)

\* C25: when a unit of a pass fails, the units completed before it stay
\* committed and the remaining units are still processed: however a pass
\* ends, its completed swaps are in the store and none is left out.
C25_FailureRollsBackOneUnit == [][PassEnds => UnitsKept]_vars

\* the threads that are inside the loop of _run_scheduler
LoopThreads == {t \in Threads : sched.thread[t].pc \in {"while", "run_pending", "job"}}

\* C26: a failing rule pass does not stop the trigger: the failure stays
\* inside the scheduler loop, so while the scheduler is running a loop thread
\* is there to execute the rule on its next tick.
C26_FailedPassIsRetried == sched.running => LoopThreads /= {}

\* C27: for any sequence of start_scheduler and stop_scheduler calls at most
\* one thread is inside the loop of _run_scheduler: a start issued right
\* after a stop never leaves the previous loop thread alive beside the new one.
C27_OneLoopThread == Cardinality(LoopThreads) <= 1

\* the ACs of a room that are ON in a devices table
OnACs(devs, r) ==
    {d \in DeviceIds : devs[d].room_id = r /\ devs[d].device_type = "ac" /\ devs[d].is_on}

\* a pass that no other connection interleaves with keeps the number of ON
\* ACs of every room (each of its swaps finds its AC ON and its replacement OFF)
PassAloneKeepsOnCount ==
    last.op = "ac_rotation_system" =>
        \A r \in RoomIds :
            Cardinality(OnACs(devices, r)) = Cardinality(OnACs(last.devices, r))

\* C28: a rotation pass never changes the number of ON ACs of any room: what
\* the pass commits leaves every room with as many ON ACs as the store held
\* when the pass committed, so no room loses its last ON AC.
C28_CommitKeepsOnCount ==
    [][PassEnds =>
         \A r \in RoomIds :
             Cardinality(OnACs(devices', r)) = Cardinality(OnACs(devices, r))]_vars

\* C29: an emergency shutdown called with a building and/or a floor changes
\* only devices of rooms inside that scope, for every scope value, building 0
\* and floor 0 included.
C29_ShutdownStaysInScope ==
    (/\ last.op = "emergency_shutdown"
     /\ last.building_id /= None \/ last.floor /= None)
    => \A d \in DeviceIds :
           ~InScope(last.devices[d].room_id, last.building_id, last.floor)
           => devices[d] = last.devices[d]

(***************************************************************************)
(* SenseScheduler.update_device_runtime, the job registered to run every   *)
(* minute.  Time is counted in the clock's unit.                           *)
(***************************************************************************)
\* for every row of SELECT id, last_switched FROM devices WHERE is_on = TRUE:
\* UPDATE devices SET hours_on = hours_on + (now - last_switched)
RuntimeUpdated(devs, t) ==
    [d \in DOMAIN devs |->
        IF devs[d].is_on
        THEN [devs[d] EXCEPT !.hours_on = @ + (t - devs[d].last_switched)]
        ELSE devs[d]]

\* a run of the job; the job's interval lies between two runs
update_device_runtime ==
    /\ last.calls < MaxCalls
    /\ last.op = "update_device_runtime" => last.now < now
    /\ devices' = RuntimeUpdated(devices, now)
    /\ last' = [Called("update_device_runtime", None, None, FALSE, None, None,
                       TRUE, "") EXCEPT !.calls = @ + 1]
    /\ UNCHANGED <<now, sched, rooms, activity_logs, system_alerts, rot, dbTables>>

\* the devices have just been switched: nothing has accrued yet
InitRuntime ==
    /\ now = 1
    /\ InitFacility
    /\ activity_logs = <<>>
    /\ system_alerts = <<>>
    /\ rot = RotIdle
    /\ sched = SchedIdle
    /\ InitStatusOff
    /\ last = NoCall

NextRuntime ==
    \/ update_device_runtime
    \/ Tick

SpecRuntime == InitRuntime /\ [][NextRuntime]_vars

\* C30: runtime accrual counts every elapsed interval once: after any number
\* of update_device_runtime runs the accumulated runtime of an ON device is
\* the time elapsed since it was switched on, and an OFF device has accrued
\* nothing.
C30_RuntimeIsElapsedTime ==
    last.op = "update_device_runtime" =>
        \A d \in DeviceIds :
            devices[d].hours_on = IF devices[d].is_on
                                  THEN last.now - devices[d].last_switched
                                  ELSE 0
====
